---- MODULE Spec2Model ----
(***************************************************************************)
(* A model of src/main.py: the LogTree index over periodic message         *)
(* streams.  A tree is built once from two dictionaries (message id ->     *)
(* period, message id -> list of timestamps) and is read-only afterwards.  *)
(*                                                                         *)
(* Python values are modelled as follows.  An int is an integer; a list is *)
(* a sequence; a set is a set; a dict is a function.  Timestamps are       *)
(* floats with integral values, so sums and differences of them are exact. *)
(* Wherever the code may hold None, an object or a raised exception, the   *)
(* value is a record with a field "kind": None, Some(v) (a plain value v), *)
(* a LogTree object, or Raise(e) (the exception e leaving the call).       *)
(* The quotient computed by accuracy() is a float; it is modelled as the   *)
(* exact fraction in lowest terms, which compares (==, <) as the floats do *)
(* for the small integers used here (-0.0 == 0.0 in Python as well).       *)
(***************************************************************************)
EXTENDS Integers, Sequences, FiniteSets, TLC

VARIABLES period_dict, timestamps_dict, pc, tree, op, arg, ret

vars == <<period_dict, timestamps_dict, pc, tree, op, arg, ret>>

(* ---------------------------- bounds ----------------------------------- *)

\* Message ids of the structural specification are 1..MaxId.
MaxId == 4
\* Periods are 1..MaxPeriod.
MaxPeriod == 2
\* Timestamp lists of the metric specification have at most MaxLen entries,
\* each in 0..MaxTime.
MaxLen == 3
MaxTime == 2

Ids == 1..MaxId
\* Ids a query may ask for: MaxId + 1 is in no tree.
QueryIds == 1..(MaxId + 1)
Periods == 1..MaxPeriod
\* The message ids of the metric specification.
MetricIds == {1, 2}
\* The timestamp lists of the structural specification, where only the
\* shape of the tree is looked at.
ShapeLists == {<<>>, <<0, 2>>}

(* --------------------------- values ------------------------------------ *)

None == [kind |-> "None"]
Some(v) == [kind |-> "value", val |-> v]
Raise(e) == [kind |-> "raise", exc |-> e]
IsRaise(r) == r.kind = "raise"

Abs(x) == IF x < 0 THEN -x ELSE x
Min(S) == CHOOSE x \in S : \A y \in S : x <= y

RECURSIVE Gcd(_, _)
Gcd(a, b) == IF b = 0 THEN a ELSE Gcd(b, a % b)

\* The float num / den (den # 0), as a fraction in lowest terms.
Quot(num, den) ==
    LET s == IF den < 0 THEN -1 ELSE 1
        g == Gcd(Abs(num), Abs(den))
    IN  [num |-> (s * num) \div g, den |-> (s * den) \div g]

QLess(a, b) == a.num * b.den < b.num * a.den

(* ------------------------- dict helpers -------------------------------- *)

\* sorted(d.items()): the (key, value) pairs in ascending order; keys are
\* distinct, so the order is that of the keys.
RECURSIVE sorted_items(_)
sorted_items(d) ==
    IF DOMAIN d = {} THEN <<>>
    ELSE LET k == Min(DOMAIN d)
         IN  <<<<k, d[k]>>>> \o sorted_items([x \in DOMAIN d \ {k} |-> d[x]])

\* s[lo:hi] of a Python list (0-based, hi exclusive, clipped to the list).
Slice(s, lo, hi) ==
    LET h == IF hi > Len(s) THEN Len(s) ELSE hi
    IN  IF lo >= h THEN <<>> ELSE SubSeq(s, lo + 1, h)

\* dict(pairs) for a list of (key, value) pairs with distinct keys.
dict(pairs) ==
    [k \in {pairs[i][1] : i \in DOMAIN pairs} |->
        (CHOOSE p \in {pairs[i] : i \in DOMAIN pairs} : p[1] = k)[2]]

(* --------------------------- the tree ---------------------------------- *)

\* LogTree(): every field is None (lines 32-39).
EmptyTree ==
    [kind |-> "LogTree", message_id |-> None, period |-> None,
     timestamps |-> None, left |-> None, right |-> None]

\* floor(len(period_dict) / 2), the index of the node's own id.
MidIndex(n) == n \div 2

\* The test below with "or" for "and".
BothNoneOr(pd, td) == pd = None \/ td = None

\* "period_dict is None and timestamps_dict is None": the empty tree.
BothNone(pd, td) == pd = None /\ td = None

\* sorted(d.items())[:mid], the items of the left child.
LeftItems(items, mid) == Slice(items, 0, mid)

\* The slice below starting one item early, at the node's own item.
RightItemsFromMid(items, mid) == Slice(items, mid, Len(items))

\* sorted(d.items())[mid+1:], the items of the right child.
RightItems(items, mid) == Slice(items, mid + 1, Len(items))

\* The constructor.  period_dict and timestamps_dict are None or Some(dict).
\* An exception raised while a child is built leaves the whole construction.
RECURSIVE LogTree(_, _)
LogTree(pd, td) ==
    IF BothNone(pd, td) THEN EmptyTree
    ELSE IF pd = None \/ td = None THEN Raise("Exception")
    ELSE
      LET p == sorted_items(pd.val)
          t == sorted_items(td.val)
          n == Len(p)
          mid == MidIndex(n)
      IN  IF mid + 1 > n THEN Raise("IndexError")
          ELSE
            LET id == p[mid + 1][1]
            IN  IF id \notin DOMAIN td.val THEN Raise("KeyError")
                ELSE
                  LET l == IF n = 1 THEN EmptyTree
                           ELSE LogTree(Some(dict(LeftItems(p, mid))),
                                        Some(dict(LeftItems(t, mid))))
                      r == IF n <= 2 THEN EmptyTree
                           ELSE LogTree(Some(dict(RightItems(p, mid))),
                                        Some(dict(RightItems(t, mid))))
                  IN  IF IsRaise(l) THEN l
                      ELSE IF IsRaise(r) THEN r
                      ELSE [kind |-> "LogTree",
                            message_id |-> Some(id),
                            period |-> Some(pd.val[id]),
                            timestamps |-> Some(td.val[id]),
                            left |-> l, right |-> r]

is_empty(self) == self.message_id = None

\* item in self
RECURSIVE contains(_, _)
contains(self, item) ==
    IF is_empty(self) THEN FALSE
    ELSE IF Some(item) = self.message_id THEN TRUE
    ELSE IF item < self.message_id.val THEN contains(self.left, item)
    ELSE contains(self.right, item)

RECURSIVE find(_, _)

\* find descending into the wrong child.
find_swapped(self, message_id) ==
    IF ~is_empty(self) /\ contains(self, message_id)
    THEN IF Some(message_id) = self.message_id THEN self
         ELSE IF message_id > self.message_id.val
              THEN find(self.left, message_id)
              ELSE find(self.right, message_id)
    ELSE None

\* find: the LogTree object of message_id, or None.
find(self, message_id) ==
    IF ~is_empty(self) /\ contains(self, message_id)
    THEN IF Some(message_id) = self.message_id THEN self
         ELSE IF message_id < self.message_id.val
              THEN find(self.left, message_id)
              ELSE find(self.right, message_id)
    ELSE None

RECURSIVE all_message_ids(_)
all_message_ids(self) ==
    IF is_empty(self) THEN {}
    ELSE {self.message_id.val} \cup all_message_ids(self.left)
                               \cup all_message_ids(self.right)


(* --------------------------- the metrics ------------------------------- *)

\* period(message_id): message_id is None (the default) or Some(id).
RECURSIVE period(_, _)
period(self, message_id) ==
    IF message_id = None \/ message_id = self.message_id THEN self.period
    ELSE IF find(self, message_id.val) # None
         THEN period(find(self, message_id.val), None)
         ELSE None

RECURSIVE timestamps(_, _)
timestamps(self, message_id) ==
    IF message_id = None \/ message_id = self.message_id THEN self.timestamps
    ELSE IF find(self, message_id.val) # None
         THEN timestamps(find(self, message_id.val), None)
         ELSE None

\* "message_id in self", where message_id may be None (only on the empty
\* tree, whose __contains__ answers before it compares).
InSelf(self, message_id) ==
    IF is_empty(self) THEN FALSE ELSE contains(self, message_id.val)

\* The sum below without abs().
RECURSIVE SumDev(_, _, _)
SumDev(t, p, n) ==
    IF n <= 0 THEN 0
    ELSE SumDev(t, p, n - 1) + ((t[n + 1] - t[n]) - p)

\* out after the loop of accuracy(): the sum of |t[i+1] - t[i] - p|.
RECURSIVE SumAbsDev(_, _, _)
SumAbsDev(t, p, n) ==
    IF n <= 0 THEN 0
    ELSE SumAbsDev(t, p, n - 1) + Abs((t[n + 1] - t[n]) - p)

\* The deviation the loop of gaps() appends for index i (0-based).
GapAt(t, p, i) == t[i + 2] - t[i + 1] - p

accuracy(self, message_id) ==
    LET m == IF message_id = None THEN self.message_id ELSE message_id
        t == timestamps(self, m)
        p == period(self, m)
        out == IF InSelf(self, m) THEN SumAbsDev(t.val, p.val, Len(t.val) - 1)
               ELSE 0
    IN  IF t = None THEN Raise("TypeError")
        ELSE IF Len(t.val) - 1 = 0 THEN Raise("ZeroDivisionError")
        ELSE Some(Quot(out, Len(t.val) - 1))

gaps(self, message_id) ==
    LET m == IF message_id = None THEN self.message_id ELSE message_id
        t == timestamps(self, m)
        p == period(self, m)
    IN  IF InSelf(self, m)
        THEN Some([i \in 1..(Len(t.val) - 1) |-> GapAt(t.val, p.val, i - 1)])
        ELSE Some(<<>>)

frequency(self, message_id) ==
    LET t == timestamps(self, message_id)
    IN  IF t = None THEN Raise("TypeError") ELSE Some(Len(t.val))

\* The orders in which "for item in self.all_message_ids()" may visit a set.
Orders(S) ==
    {o \in [1..Cardinality(S) -> S] : \A i, j \in DOMAIN o : i # j => o[i] # o[j]}

\* The first exception accuracy() raises for the items of order, or None.
FirstRaise(self, order) ==
    LET bad == {i \in DOMAIN order : IsRaise(accuracy(self, Some(order[i])))}
    IN  IF bad = {} THEN None ELSE accuracy(self, Some(order[Min(bad)]))

\* accuracy_report(): out[item] = self.accuracy(item) for every item.
accuracy_report(self, order) ==
    IF FirstRaise(self, order) # None THEN FirstRaise(self, order)
    ELSE Some([id \in {order[i] : i \in DOMAIN order} |->
                  accuracy(self, Some(id)).val])

\* d after the first loop of sorted_by_accuracy(): d[self.accuracy(item)] =
\* item, so a later item replaces an earlier one that has the same score.
ScoreDict(self, order) ==
    LET score(i) == accuracy(self, Some(order[i])).val
    IN  [q \in {score(i) : i \in DOMAIN order} |->
            order[CHOOSE i \in DOMAIN order :
                    /\ score(i) = q
                    /\ \A j \in DOMAIN order : score(j) = q => j <= i]]

\* The values of d in ascending order of its keys (sorted(d.items())).
RECURSIVE SortedValues(_)
SortedValues(d) ==
    IF DOMAIN d = {} THEN <<>>
    ELSE LET q == CHOOSE x \in DOMAIN d : \A y \in DOMAIN d : ~QLess(y, x)
         IN  <<d[q]>> \o SortedValues([x \in DOMAIN d \ {q} |-> d[x]])

sorted_by_accuracy(self, order) ==
    IF FirstRaise(self, order) # None THEN FirstRaise(self, order)
    ELSE Some(SortedValues(ScoreDict(self, order)))

(* ---------------------- the structural specification ------------------- *)

\* The dictionaries with keys in K and values in V.
Dicts(K, V) == UNION {[S -> V] : S \in SUBSET K}

\* Any two arguments: each None or a dictionary, the key sets unrelated.
Init ==
    /\ period_dict \in {None} \cup {Some(d) : d \in Dicts(Ids, Periods)}
    /\ timestamps_dict \in {None} \cup {Some(d) : d \in Dicts(Ids, ShapeLists)}
    /\ pc = "new"
    /\ tree = None
    /\ op = "none"
    /\ arg = None
    /\ ret = None

\* LogTree(period_dict, timestamps_dict)
Construct ==
    /\ pc = "new"
    /\ LET r == LogTree(period_dict, timestamps_dict)
       IN  IF IsRaise(r)
           THEN /\ pc' = "raised"
                /\ tree' = None
                /\ ret' = r
           ELSE /\ pc' = "built"
                /\ tree' = r
                /\ ret' = None
    /\ op' = "LogTree"
    /\ arg' = None
    /\ UNCHANGED <<period_dict, timestamps_dict>>

\* A call of a read-only method on the built tree: its name, its argument
\* and its outcome (what it returns, or the exception it raises).
Query(name, a, r) ==
    /\ pc = "built"
    /\ pc' = "returned"
    /\ op' = name
    /\ arg' = a
    /\ ret' = r
    /\ UNCHANGED <<period_dict, timestamps_dict, tree>>

\* The caller has taken the outcome; the tree is ready for the next call.
Return ==
    /\ pc = "returned"
    /\ pc' = "built"
    /\ op' = "LogTree"
    /\ arg' = None
    /\ ret' = None
    /\ UNCHANGED <<period_dict, timestamps_dict, tree>>

IsEmpty == Query("is_empty", None, Some(is_empty(tree)))

Contains == \E id \in QueryIds : Query("contains", Some(id), Some(contains(tree, id)))

Find == \E id \in QueryIds : Query("find", Some(id), find(tree, id))

AllMessageIds == Query("all_message_ids", None, Some(all_message_ids(tree)))

Next == Construct \/ IsEmpty \/ Contains \/ Find \/ AllMessageIds \/ Return

Spec == Init /\ [][Next]_vars

(* ------------------------ the metric specification --------------------- *)

\* The non-decreasing timestamp lists (arrival times in log order).
TimeLists ==
    UNION {{t \in [1..n -> 0..MaxTime] : \A i \in 1..(n - 1) : t[i] <= t[i + 1]}
           : n \in 0..MaxLen}

\* Both arguments None, or two dictionaries over the same key set.
InitMetrics ==
    /\ \/ period_dict = None /\ timestamps_dict = None
       \/ \E K \in SUBSET MetricIds :
            /\ period_dict \in {Some(d) : d \in [K -> Periods]}
            /\ timestamps_dict \in {Some(d) : d \in [K -> TimeLists]}
    /\ pc = "new"
    /\ tree = None
    /\ op = "none"
    /\ arg = None
    /\ ret = None

\* The ids a metric query may ask for (one more than any tree holds).
MetricQueryIds == MetricIds \cup {0}

Period == \E id \in MetricQueryIds : Query("period", Some(id), period(tree, Some(id)))

Timestamps ==
    \E id \in MetricQueryIds : Query("timestamps", Some(id), timestamps(tree, Some(id)))

Accuracy ==
    \E id \in MetricQueryIds : Query("accuracy", Some(id), accuracy(tree, Some(id)))

Gaps == \E id \in MetricQueryIds : Query("gaps", Some(id), gaps(tree, Some(id)))

Frequency ==
    \E id \in MetricQueryIds : Query("frequency", Some(id), frequency(tree, Some(id)))

AccuracyReport ==
    /\ pc = "built"
    /\ \E o \in Orders(all_message_ids(tree)) :
          Query("accuracy_report", None, accuracy_report(tree, o))

SortedByAccuracy ==
    /\ pc = "built"
    /\ \E o \in Orders(all_message_ids(tree)) :
          Query("sorted_by_accuracy", None, sorted_by_accuracy(tree, o))

NextMetrics ==
    \/ Construct
    \/ AllMessageIds
    \/ Period
    \/ Timestamps
    \/ Accuracy
    \/ Gaps
    \/ Frequency
    \/ AccuracyReport
    \/ SortedByAccuracy
    \/ Return

SpecMetrics == InitMetrics /\ [][NextMetrics]_vars

(* ------------------------------ claims --------------------------------- *)

\* The constructor has run and returned a tree.
Built == pc \in {"built", "returned"}

HasDicts == period_dict # None /\ timestamps_dict # None

\* Two dictionaries over the same key set.
Matching == HasDicts /\ DOMAIN period_dict.val = DOMAIN timestamps_dict.val

\* The ids the tree is built from: the keys of period_dict (line 44).
InputIds == IF period_dict = None THEN {} ELSE DOMAIN period_dict.val

\* The elements of a finite set of integers in ascending order.
RECURSIVE Ascending(_)
Ascending(S) ==
    IF S = {} THEN <<>> ELSE <<Min(S)>> \o Ascending(S \ {Min(S)})

RECURSIVE SumAbs(_)
SumAbs(g) == IF g = <<>> THEN 0 ELSE Abs(Head(g)) + SumAbs(Tail(g))

\* C1: for every finite id set and every pair of mappings over exactly that
\* set, construction yields a tree and all_message_ids() is the input id set.
C1_AllIdsKept ==
    (Matching /\ pc # "new") =>
        /\ Built
        /\ all_message_ids(tree) = InputIds
        /\ (op = "all_message_ids" => ret = Some(InputIds))

\* C1, as far as the code goes: the same for every non-empty id set.
C1_NonEmptyIdsKept ==
    (Matching /\ InputIds # {} /\ pc # "new") =>
        /\ Built
        /\ all_message_ids(tree) = InputIds
        /\ (op = "all_message_ids" => ret = Some(InputIds))

\* C2: on every built tree (the empty one included), contains(id) is true
\* exactly for the input ids, find(id) returns the node whose message_id is
\* id for an input id and None for any other id; neither raises.
C2_Lookup ==
    /\ op = "contains" => ret = Some(arg.val \in InputIds)
    /\ op = "find" =>
         IF arg.val \in InputIds
         THEN ret.kind = "LogTree" /\ ret.message_id = arg
         ELSE ret = None

\* C2's case: find returned a node below the root.
C2_Witness ==
    /\ pc = "returned"
    /\ op = "find"
    /\ ret.kind = "LogTree"
    /\ ret # tree
    /\ Cardinality(InputIds) = MaxId

\* C3: when every id has an accuracy score (here: at least two timestamps),
\* sorted_by_accuracy() lists every id of the tree exactly once, in
\* non-decreasing order of accuracy, also when two ids have the same score.
C3_RankingIsPermutation ==
    (/\ op = "sorted_by_accuracy"
     /\ \A id \in all_message_ids(tree) : Len(timestamps_dict.val[id]) >= 2) =>
        /\ ret.kind = "value"
        /\ Len(ret.val) = Cardinality(all_message_ids(tree))
        /\ {ret.val[i] : i \in DOMAIN ret.val} = all_message_ids(tree)
        /\ \A i, j \in DOMAIN ret.val :
             i < j => ~QLess(accuracy(tree, Some(ret.val[j])).val,
                             accuracy(tree, Some(ret.val[i])).val)

\* C4: for an id that is not in the tree, period, timestamps, accuracy, gaps
\* and frequency all return None; none of them raises.
C4_MissesAreNone ==
    (/\ op \in {"period", "timestamps", "accuracy", "gaps", "frequency"}
     /\ arg.val \notin all_message_ids(tree)) =>
        ret = None

\* C5: accuracy_report() returns a mapping from every id of the tree to its
\* accuracy score, also when some id has no or one timestamp; it never
\* raises.
C5_ReportTotal ==
    op = "accuracy_report" =>
        /\ ret.kind = "value"
        /\ DOMAIN ret.val = all_message_ids(tree)
        /\ \A id \in DOMAIN ret.val : Some(ret.val[id]) = accuracy(tree, Some(id))

\* C6: constructing from two mappings whose key sets differ raises; no tree
\* is built from them.
C6_MismatchRejected ==
    (HasDicts /\ ~Matching /\ pc # "new") => (pc = "raised" /\ tree = None)

\* C7: constructing from two absent or two empty mappings yields the empty
\* tree: is_empty() is true, all_message_ids() is empty, contains(id) is
\* false for every id, and nothing is raised.
C7_EmptyInputs ==
    (/\ \/ (period_dict = None /\ timestamps_dict = None)
        \/ (Matching /\ InputIds = {})
     /\ pc # "new") =>
        /\ Built
        /\ is_empty(tree)
        /\ all_message_ids(tree) = {}
        /\ \A id \in QueryIds : ~contains(tree, id)
        /\ (op = "is_empty" => ret = Some(TRUE))

\* C8: constructing with exactly one of the two mappings None raises and
\* builds no tree.
C8_PartialRejected ==
    (/\ (period_dict = None) # (timestamps_dict = None)
     /\ pc # "new") =>
        /\ pc = "raised"
        /\ tree = None
        /\ ret = Raise("Exception")

\* C8's case: a period mapping with an entry and no timestamp mapping.
C8_Witness ==
    /\ pc = "raised"
    /\ period_dict # None
    /\ InputIds # {}
    /\ timestamps_dict = None

\* C9: for every id of the tree with at least two timestamps t and period p
\* (as given to the constructor), gaps(id) has frequency(id) - 1 entries,
\* gaps(id)[i] = t[i+1] - t[i] - p, and accuracy(id) is the mean of the
\* absolute values of the gaps, which is not negative.
C9_GapsAndAccuracy ==
    (pc = "returned" /\ arg # None /\ arg.val \in InputIds) =>
        LET t == timestamps_dict.val[arg.val]
            p == period_dict.val[arg.val]
            f == frequency(tree, arg)
            g == gaps(tree, arg)
        IN  /\ op = "frequency" => ret = Some(Len(t))
            /\ (op = "gaps" /\ Len(t) >= 2) =>
                  /\ ret.kind = "value"
                  /\ Len(ret.val) = f.val - 1
                  /\ \A i \in 1..(Len(t) - 1) : ret.val[i] = t[i + 1] - t[i] - p
            /\ (op = "accuracy" /\ Len(t) >= 2) =>
                  /\ ret.kind = "value"
                  /\ ret.val.den > 0
                  /\ ret.val.num * (f.val - 1) = SumAbs(g.val) * ret.val.den
                  /\ ret.val.num >= 0

\* C9's case: accuracy returned the mean of several gaps, one above and one
\* below the period.
C9_Witness ==
    /\ pc = "returned"
    /\ op = "accuracy"
    /\ ret.kind = "value"
    /\ ret.val.num > 0
    /\ LET g == gaps(tree, arg).val
       IN  \E i, j \in DOMAIN g : g[i] < 0 /\ g[j] > 0

\* The median-split shape of the subtree self, and what follows from it.
RECURSIVE MedianShape(_)
MedianShape(self) ==
    is_empty(self) \/
    LET s == Ascending(all_message_ids(self))
        n == Len(s)
        mid == n \div 2
        L == all_message_ids(self.left)
        R == all_message_ids(self.right)
    IN  /\ self.message_id = Some(s[mid + 1])
        /\ L = {s[i] : i \in 1..mid}
        /\ R = {s[i] : i \in (mid + 2)..n}
        /\ \A x \in L : x < self.message_id.val
        /\ \A x \in R : self.message_id.val < x
        /\ Cardinality(L) - Cardinality(R) \in {0, 1}
        /\ n = 2 => (self.message_id = Some(s[2]) /\ is_empty(self.right))
        /\ MedianShape(self.left)
        /\ MedianShape(self.right)

\* C10: in every tree built from matching mappings, every non-empty node
\* holds the id at index floor(n/2) of the n ascending ids of its subtree,
\* its left subtree the ids before that index and its right subtree the ids
\* after it; so left ids < node id < right ids and the left subtree has as
\* many ids as the right one, or one more.
C10_MedianSplit ==
    (Built /\ Matching) =>
        /\ all_message_ids(tree) = InputIds
        /\ MedianShape(tree)

\* C10's case: four ids, the third smallest at the root.
C10_Witness ==
    /\ Built
    /\ Matching
    /\ InputIds = 1..4
    /\ tree.message_id = Some(3)
    /\ tree.left.message_id = Some(2)
    /\ is_empty(tree.left.right)

====
